---- MODULE Spec2Model ----
(***************************************************************************)
(* scripts/parse_to_csv.py: a simulation log is parsed line by line with   *)
(* one regular expression, the matched trades are written to a per-trade   *)
(* table, folded per symbol, and the per-symbol summary table is written.  *)
(*                                                                         *)
(* Text is modelled character by character: a string is a sequence of      *)
(* one-character strings.  A float is modelled as an exact decimal in      *)
(* thousandths (every numeric token of the inputs has at most three        *)
(* fractional digits), the values round(x, 2) writes are in hundredths.    *)
(* A table is modelled as its header and the list of the values of its     *)
(* rows; the quoting and number formatting of csv.writer are not.  Opening *)
(* a file may raise; a write to an opened file is taken to succeed.        *)
(***************************************************************************)
EXTENDS Integers, Sequences, FiniteSets, TLC

VARIABLES
    log,        \* the lines of log_file, as `for line in f` yields them
    perTrade,   \* the file at per_trade_path
    summary,    \* the file at summary_path
    pc,         \* the statement the script is at
    err,        \* the exception that ended the run, "none" while there is none
    i,          \* the log line the read loop is at
    rows,       \* rows
    k,          \* the row the fold loop is at
    cnt, sum_p, hits, miss, max_p, min_p,   \* the aggregates, keyed by symbol
    keys,       \* sorted(cnt.keys())
    j,          \* the key the emission loop is at
    out         \* the lines printed

vars == << log, perTrade, summary, pc, err, i, rows, k,
           cnt, sum_p, hits, miss, max_p, min_p, keys, j, out >>

(***************************************************************************)
(* Characters and character classes of line_re                             *)
(***************************************************************************)
\* the characters of the modelled logs, in code point order
Ascii ==
    << "\t", "\n", " ", "$", "-", ".", "/",
       "0", "1", "2", "3", "4", "5", "6", "7", "8", "9", ":", "=",
       "A", "C", "F", "H", "I", "L", "M", "N", "P", "S", "T", "X",
       "a", "d", "e", "i", "l", "n", "p", "r", "s", "t", "|" >>

Alphabet == { Ascii[n] : n \in 1..Len(Ascii) }

\* \d
Digit == {"0", "1", "2", "3", "4", "5", "6", "7", "8", "9"}

\* [0-9.]
NumChar == Digit \cup {"."}

\* \s
Space == {" ", "\t", "\n"}

\* [^|]
NotBar == Alphabet \ {"|"}

\* . (any character but a newline)
Dot == Alphabet \ {"\n"}

\* \d{4}/\d{2}/\d{2} \d{2}:\d{2}:\d{2} followed by the literal space
TsPattern ==
    << "d", "d", "d", "d", "/", "d", "d", "/", "d", "d", " ",
       "d", "d", ":", "d", "d", ":", "d", "d", " " >>

HitTag == << "H", "I", "T", ":" >>
MissTag == << "M", "I", "S", "S", ":" >>
PnlLit == << " ", "|", " ", "P", "n", "L", "=", "$" >>
CapLit == << " ", "|", " ", "C", "a", "p", "i", "t", "a", "l", "=", "$" >>
TradesLit == << " ", "|", " ", "T", "r", "a", "d", "e", "s", ":", " " >>

(***************************************************************************)
(* The matcher                                                             *)
(***************************************************************************)
\* the literal lit stands in s at position p
LitAt(s, p, lit) ==
    /\ p >= 1
    /\ p + Len(lit) - 1 <= Len(s)
    /\ \A n \in 1..Len(lit) : s[p + n - 1] = lit[n]

\* the end of a greedy run of class C from p: the first position at or after p
\* whose character is not in C (Len(s) + 1 when the run reaches the end)
RunEnd(s, p, C) ==
    CHOOSE q \in p..(Len(s) + 1) :
        /\ \A n \in p..(q - 1) : s[n] \in C
        /\ q = Len(s) + 1 \/ s[q] \notin C

\* ^(\d{4}/\d{2}/\d{2} \d{2}:\d{2}:\d{2}) and the space after it
TsAt(s) ==
    /\ Len(s) >= Len(TsPattern)
    /\ \A n \in 1..Len(TsPattern) :
          IF TsPattern[n] = "d" THEN s[n] \in Digit ELSE s[n] = TsPattern[n]

NoMatch == [ok |-> FALSE]

\* (HIT:|MISS:)\s+([^|]+) \| PnL=\$(-?[0-9.]+) \| Capital=\$([0-9.]+) \| Trades: (\d+)/(\d+)
\* tried with the marker at position p
MatchFrom(s, p) ==
    LET tag == IF LitAt(s, p, HitTag) THEN HitTag
               ELSE IF LitAt(s, p, MissTag) THEN MissTag ELSE << >>
        a == p + Len(tag)
        \* [^|]+ cannot cross a bar, and " \|" must follow it: the symbol group
        \* ends two characters before the first bar after the marker
        bar == RunEnd(s, a, NotBar)
        ws == RunEnd(s, a, Space)
        \* \s+ is greedy but leaves [^|]+ one character
        symStart == IF ws <= bar - 2 THEN ws ELSE bar - 2
        c == bar + Len(PnlLit) - 1
        d == IF c <= Len(s) /\ s[c] = "-" THEN c + 1 ELSE c
        e == RunEnd(s, d, NumChar)
        f == e + Len(CapLit)
        g == RunEnd(s, f, NumChar)
        h == g + Len(TradesLit)
        sl == RunEnd(s, h, Digit)
        z == RunEnd(s, sl + 1, Digit)
    IN  IF /\ tag # << >>
           /\ bar <= Len(s)
           /\ bar - 2 >= a + 1
           /\ s[a] \in Space
           /\ LitAt(s, bar - 1, PnlLit)
           /\ d <= Len(s) /\ e > d
           /\ LitAt(s, e, CapLit)
           /\ f <= Len(s) /\ g > f
           /\ LitAt(s, g, TradesLit)
           /\ h <= Len(s) /\ sl > h
           /\ sl <= Len(s) /\ s[sl] = "/"
           /\ sl + 1 <= Len(s) /\ z > sl + 1
        THEN [ok |-> TRUE,
              ts |-> SubSeq(s, 1, Len(TsPattern) - 1),
              status_tag |-> tag,
              symbol |-> SubSeq(s, symStart, bar - 2),
              pnl |-> SubSeq(s, c, e - 1),
              cap |-> SubSeq(s, f, g - 1),
              idx |-> SubSeq(s, h, sl - 1),
              total |-> SubSeq(s, sl + 1, z - 1)]
        ELSE NoMatch

\* line_re.search(line): the pattern is anchored at the start of the line; the
\* lazy .*? takes the first marker position from which the rest matches
Search(s) ==
    IF ~TsAt(s) THEN NoMatch
    ELSE LET from == Len(TsPattern) + 1
             cands == { p \in from..Len(s) :
                          /\ MatchFrom(s, p).ok
                          /\ \A n \in from..(p - 1) : s[n] \in Dot }
         IN  IF cands = {} THEN NoMatch
             ELSE MatchFrom(s, CHOOSE p \in cands : \A q \in cands : p <= q)

(***************************************************************************)
(* Conversions of the captured groups                                      *)
(***************************************************************************)
\* sub in text
Contains(text, sub) == \E p \in 1..Len(text) : LitAt(text, p, sub)

\* 'HIT' if 'HIT' in status_tag else 'MISS'
StatusOf(tag) == IF Contains(tag, << "H", "I", "T" >>) THEN "HIT" ELSE "MISS"

\* str.strip()
Strip(s) ==
    LET first == RunEnd(s, 1, Space)
        last == IF first > Len(s) THEN 0
                ELSE CHOOSE q \in first..Len(s) :
                        /\ s[q] \notin Space
                        /\ \A n \in (q + 1)..Len(s) : s[n] \in Space
    IN  SubSeq(s, first, last)

DigitSeq == << "0", "1", "2", "3", "4", "5", "6", "7", "8", "9" >>

DigitVal(ch) == CHOOSE v \in 0..9 : DigitSeq[v + 1] = ch

RECURSIVE NatOf(_)
\* the value of a string of decimal digits
NatOf(ds) ==
    IF Len(ds) = 0 THEN 0
    ELSE 10 * NatOf(SubSeq(ds, 1, Len(ds) - 1)) + DigitVal(ds[Len(ds)])

\* int(token) for a token of \d+
IntOf(tok) == NatOf(tok)

\* float(token) succeeds on a token of -?[0-9.]+ exactly when the token has a
\* digit and at most one point
FloatOk(tok) ==
    /\ \E n \in 1..Len(tok) : tok[n] \in Digit
    /\ Cardinality({ n \in 1..Len(tok) : tok[n] = "." }) <= 1

\* float(token), in thousandths
FloatOf(tok) ==
    LET neg == Len(tok) > 0 /\ tok[1] = "-"
        body == IF neg THEN Tail(tok) ELSE tok
        pt == RunEnd(body, 1, Digit)
        whole == SubSeq(body, 1, pt - 1)
        frac == SubSeq(body, pt + 1, Len(body))
        frac3 == SubSeq(frac \o << "0", "0", "0" >>, 1, 3)
        mag == 1000 * NatOf(whole) + NatOf(frac3)
    IN  IF neg THEN 0 - mag ELSE mag

\* the TradeRecord of a match: line 15's list
Record(m) ==
    [ts |-> m.ts,
     status |-> StatusOf(m.status_tag),
     symbol |-> Strip(m.symbol),
     pnl |-> FloatOf(m.pnl),
     cap |-> FloatOf(m.cap),
     idx |-> IntOf(m.idx),
     total |-> IntOf(m.total)]

\* float(pnl), float(cap), int(idx), int(total) all return
Converts(m) == FloatOk(m.pnl) /\ FloatOk(m.cap)

\* rows.append(r)
AppendRow(rs, r) == Append(rs, r)

(***************************************************************************)
(* Aggregation                                                             *)
(***************************************************************************)
\* d[key] of a defaultdict(int) or defaultdict(float)
Get(d, key) == IF key \in DOMAIN d THEN d[key] ELSE 0

\* d[key] = v
Put(d, key, v) == [x \in DOMAIN d \cup {key} |-> IF x = key THEN v ELSE d[x]]

\* d[key] += v on a defaultdict
Add(d, key, v) == Put(d, key, Get(d, key) + v)

\* reading d[key] of a defaultdict inserts the default
Touch(d, key) == Put(d, key, Get(d, key))

\* UpdMax on a defaultdict(float): the extremum starts from the sentinel 0.0
UpdMaxSentinel(d, key, v) == IF v > Get(d, key) THEN Put(d, key, v) ELSE Touch(d, key)

\* if sym not in max_p or pnl>max_p[sym]: max_p[sym]=pnl
UpdMax(d, key, v) == IF key \notin DOMAIN d \/ v > d[key] THEN Put(d, key, v) ELSE d

\* if sym not in min_p or pnl<min_p[sym]: min_p[sym]=pnl
UpdMin(d, key, v) == IF key \notin DOMAIN d \/ v < d[key] THEN Put(d, key, v) ELSE d

\* IsHit comparing the status with the marker text of the log
IsHitTag(status) == status = "HIT:"

\* status=='HIT'
IsHit(status) == status = "HIT"

\* c < d by code point
ChLess(c, d) ==
    \E m, n \in 1..Len(Ascii) : Ascii[m] = c /\ Ascii[n] = d /\ m < n

\* a < b for strings: lexicographic by code point
StrLess(a, b) ==
    \E n \in 1..(Len(b)) :
        /\ \A m \in 1..(n - 1) : m <= Len(a) /\ a[m] = b[m]
        /\ n > Len(a) \/ ChLess(a[n], b[n])

RECURSIVE SortedReverse(_)
\* sorted(cnt.keys(), reverse=True): the keys in descending order
SortedReverse(S) ==
    IF S = {} THEN << >>
    ELSE LET last == CHOOSE x \in S : \A y \in S \ {x} : StrLess(x, y)
         IN  SortedReverse(S \ {last}) \o << last >>

RECURSIVE Sorted(_)
\* sorted(S) for a set of strings
Sorted(S) ==
    IF S = {} THEN << >>
    ELSE LET least == CHOOSE x \in S : \A y \in S \ {x} : StrLess(x, y)
         IN  << least >> \o Sorted(S \ {least})

\* round(num/den, 2) in hundredths, for num/den given in hundredths: the
\* nearest hundredth; on a tie the binary expansion of the float decides, so
\* both neighbours are possible
Round2(num, den) ==
    LET q == num \div den
    IN  { r \in {q, q + 1} : 2 * r * den - 2 * num <= den /\ 2 * num - 2 * r * den <= den }

\* WinRate with the integer division 100*hits[sym]//tot
WinRateFloorDiv(h, tot) == IF tot # 0 THEN {100 * ((100 * h) \div tot)} ELSE {0}

\* 100.0*hits[sym]/tot if tot else 0.0, rounded
WinRate(h, tot) == IF tot # 0 THEN Round2(10000 * h, tot) ELSE {0}

\* sum_p[sym]/tot if tot else 0.0, rounded
Avg(s, tot) == IF tot # 0 THEN Round2(s, 10 * tot) ELSE {0}

(***************************************************************************)
(* The inputs: logs of at most MaxLines lines drawn from LinePool          *)
(***************************************************************************)
\* a HIT of AAPL (the first example line of the documentation)
LineHitAapl ==
    << "2", "0", "2", "4", "/", "0", "1", "/", "0", "1", " ", "0", "9", ":",
       "0", "0", ":", "0", "0", " ", "S", "I", "M", " ", "H", "I", "T", ":",
       " ", "A", "A", "P", "L", " ", "|", " ", "P", "n", "L", "=", "$", "1",
       "2", ".", "5", "0", " ", "|", " ", "C", "a", "p", "i", "t", "a", "l",
       "=", "$", "1", "0", "0", "1", "2", ".", "5", "0", " ", "|", " ", "T",
       "r", "a", "d", "e", "s", ":", " ", "1", "/", "1", "0", "\n" >>

\* a MISS of AAPL with a negative PnL (the second example line)
LineMissAapl ==
    << "2", "0", "2", "4", "/", "0", "1", "/", "0", "1", " ", "0", "9", ":",
       "0", "1", ":", "0", "0", " ", "S", "I", "M", " ", "M", "I", "S", "S",
       ":", " ", "A", "A", "P", "L", " ", "|", " ", "P", "n", "L", "=", "$",
       "-", "5", ".", "0", "0", " ", "|", " ", "C", "a", "p", "i", "t", "a",
       "l", "=", "$", "1", "0", "0", "0", "7", ".", "5", "0", " ", "|", " ",
       "T", "r", "a", "d", "e", "s", ":", " ", "2", "/", "1", "0", "\n" >>

\* a lower-case symbol with whitespace around it, three fractional digits
LineMissLower ==
    << "2", "0", "2", "4", "/", "0", "1", "/", "0", "1", " ", "0", "9", ":",
       "0", "2", ":", "0", "0", " ", "S", "I", "M", " ", "M", "I", "S", "S",
       ":", " ", "\t", " ", "a", "a", "p", "l", " ", " ", "|", " ", "P",
       "n", "L", "=", "$", "-", "0", ".", "1", "2", "5", " ", "|", " ", "C",
       "a", "p", "i", "t", "a", "l", "=", "$", "9", ".", "5", " ", "|", " ",
       "T", "r", "a", "d", "e", "s", ":", " ", "3", "/", "1", "0", "\n" >>

\* a line without the Trades: segment
LineNoTrades ==
    << "2", "0", "2", "4", "/", "0", "1", "/", "0", "1", " ", "0", "9", ":",
       "0", "3", ":", "0", "0", " ", "S", "I", "M", " ", "H", "I", "T", ":",
       " ", "A", "A", "P", "L", " ", "|", " ", "P", "n", "L", "=", "$", "1",
       ".", "0", "0", " ", "|", " ", "C", "a", "p", "i", "t", "a", "l", "=",
       "$", "1", ".", "0", "0", "\n" >>

\* a line whose PnL token has two points
LineTwoPoints ==
    << "2", "0", "2", "4", "/", "0", "1", "/", "0", "1", " ", "0", "9", ":",
       "0", "4", ":", "0", "0", " ", "S", "I", "M", " ", "H", "I", "T", ":",
       " ", "A", "A", "P", "L", " ", "|", " ", "P", "n", "L", "=", "$", "1",
       ".", "2", ".", "3", " ", "|", " ", "C", "a", "p", "i", "t", "a", "l",
       "=", "$", "1", ".", "0", "0", " ", "|", " ", "T", "r", "a", "d", "e",
       "s", ":", " ", "4", "/", "1", "0", "\n" >>

\* a second negative MISS of AAPL
LineMissAapl2 ==
    << "2", "0", "2", "4", "/", "0", "1", "/", "0", "1", " ", "0", "9", ":",
       "0", "5", ":", "0", "0", " ", "S", "I", "M", " ", "M", "I", "S", "S",
       ":", " ", "A", "A", "P", "L", " ", "|", " ", "P", "n", "L", "=", "$",
       "-", "7", ".", "5", " ", "|", " ", "C", "a", "p", "i", "t", "a", "l",
       "=", "$", "1", ".", " ", "|", " ", "T", "r", "a", "d", "e", "s", ":",
       " ", "5", "/", "1", "0", "\n" >>

\* a HIT of MSFT
LineHitMsft ==
    << "2", "0", "2", "4", "/", "0", "1", "/", "0", "1", " ", "0", "9", ":",
       "0", "6", ":", "0", "0", " ", "S", "I", "M", " ", "H", "I", "T", ":",
       " ", "M", "S", "F", "T", " ", "|", " ", "P", "n", "L", "=", "$", ".",
       "5", " ", "|", " ", "C", "a", "p", "i", "t", "a", "l", "=", "$", "3",
       " ", "|", " ", "T", "r", "a", "d", "e", "s", ":", " ", "6", "/", "1",
       "0", "\n" >>

LinePool ==
    { LineHitAapl,
      LineMissAapl,
      LineMissLower,
      LineNoTrades,
      LineTwoPoints,
      LineMissAapl2,
      LineHitMsft }

MaxLines == 3

RECURSIVE SeqsUpTo(_, _)
SeqsUpTo(S, n) ==
    IF n = 0 THEN { << >> }
    ELSE LET shorter == SeqsUpTo(S, n - 1)
         IN  shorter \cup { Append(s, x) : s \in { t \in shorter : Len(t) = n - 1 }, x \in S }

Logs == SeqsUpTo(LinePool, MaxLines)

\* line_re.search(line) for the lines of the inputs: the compiled pattern,
\* applied once to each line
line_re == [line \in LinePool |-> Search(line)]

(***************************************************************************)
(* Files                                                                   *)
(***************************************************************************)
\* os.path.join(out_dir, 'sim_per_trade.csv')
per_trade_path == "data/sim_per_trade.csv"

\* os.path.join(out_dir, 'sim_summary_by_symbol.csv')
summary_path == "data/sim_summary_by_symbol.csv"

PerTradeHeader ==
    << "timestamp", "status", "symbol", "pnl_usd", "capital_usd",
       "trade_index", "total_trades" >>

SummaryHeader ==
    << "symbol", "hits", "misses", "total", "win_rate_pct", "avg_pnl_usd",
       "sum_pnl_usd", "max_pnl_usd", "min_pnl_usd" >>

\* a path with no file at it
Absent == [tag |-> "absent", header |-> << >>, body |-> << >>]

\* a file left by something earlier, whatever it holds
Stale == [tag |-> "stale", header |-> << >>, body |-> << >>]

\* a file as a with-block of the script leaves it
Written(header, body) == [tag |-> "written", header |-> header, body |-> body]

Empty == << >>

(***************************************************************************)
(* The script                                                              *)
(***************************************************************************)
Init ==
    /\ log \in Logs
    /\ \E prior \in {Absent, Stale} : perTrade = prior /\ summary = prior
    /\ pc = "makedirs"
    /\ err = "none"
    /\ i = 1
    /\ rows = << >>
    /\ k = 1
    /\ cnt = Empty /\ sum_p = Empty /\ hits = Empty /\ miss = Empty
    /\ max_p = Empty /\ min_p = Empty
    /\ keys = << >>
    /\ j = 1
    /\ out = << >>

\* an exception leaves the script
Raise(e) ==
    /\ pc' = "failed"
    /\ err' = e

\* line 4: os.makedirs(out_dir, exist_ok=True)
MakeDirs ==
    /\ pc = "makedirs"
    /\ \/ pc' = "open_log" /\ err' = err
       \/ Raise("makedirs")
    /\ UNCHANGED << log, perTrade, summary, i, rows, k,
                    cnt, sum_p, hits, miss, max_p, min_p, keys, j, out >>

\* OpenLog with the per-trade table opened for writing before the log is
OpenLogAfterOutput ==
    /\ pc = "open_log"
    /\ perTrade' = Written(PerTradeHeader, << >>)
    /\ \/ pc' = "read" /\ err' = err
       \/ Raise("open_log")
    /\ UNCHANGED << log, summary, i, rows, k,
                    cnt, sum_p, hits, miss, max_p, min_p, keys, j, out >>

\* line 9: open(log_file,'r'), which raises when the file is missing or unreadable
OpenLog ==
    /\ pc = "open_log"
    /\ \/ pc' = "read" /\ err' = err
       \/ Raise("open_log")
    /\ UNCHANGED << log, perTrade, summary, i, rows, k,
                    cnt, sum_p, hits, miss, max_p, min_p, keys, j, out >>

\* ReadSkip without `if not m: continue`: m.groups() raises on None
ReadSkipRaises ==
    /\ pc = "read"
    /\ i <= Len(log)
    /\ ~line_re[log[i]].ok
    /\ Raise("AttributeError")
    /\ UNCHANGED << log, perTrade, summary, i, rows, k,
                    cnt, sum_p, hits, miss, max_p, min_p, keys, j, out >>

\* lines 10-12: a line the pattern does not match
ReadSkip ==
    /\ pc = "read"
    /\ i <= Len(log)
    /\ ~line_re[log[i]].ok
    /\ i' = i + 1
    /\ UNCHANGED << log, perTrade, summary, pc, err, rows, k,
                    cnt, sum_p, hits, miss, max_p, min_p, keys, j, out >>

\* lines 10-15: a line the pattern matches
ReadMatch ==
    /\ pc = "read"
    /\ i <= Len(log)
    /\ LET m == line_re[log[i]]
       IN  /\ m.ok
           /\ IF Converts(m)
              THEN /\ rows' = AppendRow(rows, Record(m))
                   /\ i' = i + 1
                   /\ UNCHANGED << pc, err >>
              ELSE /\ Raise("ValueError")
                   /\ UNCHANGED << rows, i >>
    /\ UNCHANGED << log, perTrade, summary, k,
                    cnt, sum_p, hits, miss, max_p, min_p, keys, j, out >>

\* ReadDone leaving the loop one line early
ReadDoneOffByOne ==
    /\ pc = "read"
    /\ i >= Len(log)
    /\ pc' = "write_per_trade"
    /\ UNCHANGED << log, perTrade, summary, err, i, rows, k,
                    cnt, sum_p, hits, miss, max_p, min_p, keys, j, out >>

\* line 10: the log is exhausted and the with-block closes it
ReadDone ==
    /\ pc = "read"
    /\ i > Len(log)
    /\ pc' = "write_per_trade"
    /\ UNCHANGED << log, perTrade, summary, err, i, rows, k,
                    cnt, sum_p, hits, miss, max_p, min_p, keys, j, out >>

\* lines 16-17: the per-trade table; open(...,'w') raises when the path
\* cannot be opened for writing
WritePerTrade ==
    /\ pc = "write_per_trade"
    /\ \/ /\ perTrade' = Written(PerTradeHeader, rows)
          /\ pc' = "fold"
          /\ err' = err
       \/ /\ Raise("open_per_trade")
          /\ UNCHANGED perTrade
    /\ UNCHANGED << log, summary, i, rows, k,
                    cnt, sum_p, hits, miss, max_p, min_p, keys, j, out >>

\* lines 20-25: one record is folded in
FoldStep ==
    /\ pc = "fold"
    /\ k <= Len(rows)
    /\ LET status == rows[k].status
           sym == rows[k].symbol
           pnl == rows[k].pnl
       IN  /\ cnt' = Add(cnt, sym, 1)
           /\ sum_p' = Add(sum_p, sym, pnl)
           /\ max_p' = UpdMax(max_p, sym, pnl)
           /\ min_p' = UpdMin(min_p, sym, pnl)
           /\ IF IsHit(status)
              THEN hits' = Add(hits, sym, 1) /\ miss' = miss
              ELSE miss' = Add(miss, sym, 1) /\ hits' = hits
    /\ k' = k + 1
    /\ UNCHANGED << log, perTrade, summary, pc, err, i, rows, keys, j, out >>

\* line 20: the rows are exhausted
FoldDone ==
    /\ pc = "fold"
    /\ k > Len(rows)
    /\ pc' = "open_summary"
    /\ UNCHANGED << log, perTrade, summary, err, i, rows, k,
                    cnt, sum_p, hits, miss, max_p, min_p, keys, j, out >>

\* lines 26-28: the summary table is opened, its header written, the keys sorted
OpenSummary ==
    /\ pc = "open_summary"
    /\ \/ /\ summary' = [tag |-> "open", header |-> SummaryHeader, body |-> << >>]
          /\ keys' = Sorted(DOMAIN cnt)
          /\ pc' = "emit"
          /\ err' = err
       \/ /\ Raise("open_summary")
          /\ UNCHANGED << summary, keys >>
    /\ UNCHANGED << log, perTrade, i, rows, k,
                    cnt, sum_p, hits, miss, max_p, min_p, j, out >>

\* lines 29-30: the row of one symbol
EmitRow ==
    /\ pc = "emit"
    /\ j <= Len(keys)
    /\ LET sym == keys[j]
           tot == cnt[sym]
       IN  /\ \E wr \in WinRate(Get(hits, sym), tot), avg \in Avg(sum_p[sym], tot),
                 s \in Round2(sum_p[sym], 10), mx \in Round2(max_p[sym], 10),
                 mn \in Round2(min_p[sym], 10) :
                 summary' = [summary EXCEPT !.body = Append(@,
                     [symbol |-> sym, hits |-> Get(hits, sym), misses |-> Get(miss, sym),
                      total |-> tot, win_rate_pct |-> wr, avg_pnl_usd |-> avg,
                      sum_pnl_usd |-> s, max_pnl_usd |-> mx, min_pnl_usd |-> mn])]
           /\ hits' = Touch(hits, sym)
           /\ miss' = Touch(miss, sym)
    /\ j' = j + 1
    /\ UNCHANGED << log, perTrade, pc, err, i, rows, k,
                    cnt, sum_p, max_p, min_p, keys, out >>

\* line 28: the keys are exhausted and the with-block closes the table
CloseSummary ==
    /\ pc = "emit"
    /\ j > Len(keys)
    /\ summary' = Written(summary.header, summary.body)
    /\ pc' = "print"
    /\ UNCHANGED << log, perTrade, err, i, rows, k,
                    cnt, sum_p, hits, miss, max_p, min_p, keys, j, out >>

\* line 31: print(per_trade_path); print(summary_path)
PrintPaths ==
    /\ pc = "print"
    /\ out' = << per_trade_path, summary_path >>
    /\ pc' = "done"
    /\ UNCHANGED << log, perTrade, summary, err, i, rows, k,
                    cnt, sum_p, hits, miss, max_p, min_p, keys, j >>

Next ==
    \/ MakeDirs
    \/ OpenLog
    \/ ReadSkip
    \/ ReadMatch
    \/ ReadDone
    \/ WritePerTrade
    \/ FoldStep
    \/ FoldDone
    \/ OpenSummary
    \/ EmitRow
    \/ CloseSummary
    \/ PrintPaths

Spec == Init /\ [][Next]_vars

(***************************************************************************)
(* What the tables are compared against: the matching lines of a log and   *)
(* the per-symbol figures of a list of records, stated without the loops   *)
(***************************************************************************)
Matches(line) == line_re[line].ok

\* the records of the matching lines of ls, in the order of ls
RowsOf(ls) ==
    LET sel == SelectSeq(ls, Matches)
    IN  [n \in 1..Len(sel) |-> Record(line_re[sel[n]])]

RemoveAt(s, n) == SubSeq(s, 1, n - 1) \o SubSeq(s, n + 1, Len(s))

\* the positions of the records of rs with symbol sym
SymRows(rs, sym) == { n \in 1..Len(rs) : rs[n].symbol = sym }

HitRows(rs, sym) == { n \in SymRows(rs, sym) : rs[n].status = "HIT" }

RECURSIVE PnlSum(_, _)
PnlSum(rs, S) ==
    IF S = {} THEN 0
    ELSE LET n == CHOOSE x \in S : TRUE
         IN  rs[n].pnl + PnlSum(rs, S \ {n})

PnlMax(rs, S) == CHOOSE v \in { rs[n].pnl : n \in S } : \A n \in S : rs[n].pnl <= v

PnlMin(rs, S) == CHOOSE v \in { rs[n].pnl : n \in S } : \A n \in S : v <= rs[n].pnl

\* r hundredths is num/den hundredths rounded to the nearest hundredth
Nearest(r, num, den) == 2 * r * den - 2 * num <= den /\ 2 * num - 2 * r * den <= den

\* r hundredths is within 0.01 of num/den hundredths
Within001(r, num, den) == r * den - num <= den /\ num - r * den <= den

Symbols(rs) == { rs[n].symbol : n \in 1..Len(rs) }

Untouched(file) == file.tag \in {"absent", "stale"}

Complete(file) == file.tag = "written"

Terminal == pc \in {"done", "failed"}

\* the exceptions of the file system, as opposed to those of the conversions
IoErrors == {"makedirs", "open_log", "open_per_trade", "open_summary"}

Table(file) == file.body

(***************************************************************************)
(* C1                                                                      *)
(***************************************************************************)
\* C1: for every input log, a run that no file-system error ends leaves a
\* per-trade table with exactly one row per line matching the pattern, in log
\* order (no row for another line, no matching line dropped or duplicated).
C1_RowPerMatchingLine ==
    (Terminal /\ err \notin IoErrors) =>
        /\ Complete(perTrade)
        /\ Table(perTrade) = RowsOf(log)

(***************************************************************************)
(* C2                                                                      *)
(***************************************************************************)
\* C2: after any prefix of the records is folded, and in the summary table,
\* for every symbol present count = hit_count + miss_count, count is the
\* number of folded per-trade rows of the symbol and hit_count the number of
\* those whose status is HIT.
C2_CountsPartition ==
    /\ \A sym \in DOMAIN cnt :
          LET folded == SubSeq(rows, 1, k - 1)
          IN  /\ cnt[sym] = Get(hits, sym) + Get(miss, sym)
              /\ cnt[sym] = Cardinality(SymRows(folded, sym))
              /\ Get(hits, sym) = Cardinality(HitRows(folded, sym))
    /\ \A n \in 1..Len(Table(summary)) :
          LET r == Table(summary)[n]
          IN  /\ r.total = r.hits + r.misses
              /\ r.total = Cardinality(SymRows(Table(perTrade), r.symbol))
              /\ r.hits = Cardinality(HitRows(Table(perTrade), r.symbol))

\* a written summary with a symbol that has both a HIT and a MISS
C2_Witness ==
    /\ Complete(summary)
    /\ \E n \in 1..Len(Table(summary)) :
          Table(summary)[n].hits >= 1 /\ Table(summary)[n].misses >= 1

(***************************************************************************)
(* C3                                                                      *)
(***************************************************************************)
\* the running extrema are the true extrema of the folded records of each
\* symbol, and exist for exactly the symbols counted
ExtremaOfFolded ==
    /\ DOMAIN max_p = DOMAIN cnt
    /\ DOMAIN min_p = DOMAIN cnt
    /\ \A sym \in DOMAIN cnt :
          LET folded == SubSeq(rows, 1, k - 1)
              S == SymRows(folded, sym)
          IN  /\ max_p[sym] = PnlMax(folded, S)
              /\ min_p[sym] = PnlMin(folded, S)

\* C3 as stated: for every symbol in the summary table, max_pnl_usd and
\* min_pnl_usd equal the true maximum and minimum of the pnl values of the
\* symbol's per-trade rows (a single record reports max = min = its pnl).
C3_ExtremaExact ==
    \A n \in 1..Len(Table(summary)) :
        LET r == Table(summary)[n]
            S == SymRows(Table(perTrade), r.symbol)
        IN  /\ 10 * r.max_pnl_usd = PnlMax(Table(perTrade), S)
            /\ 10 * r.min_pnl_usd = PnlMin(Table(perTrade), S)

\* C3 amended: the running extrema equal the true maximum and minimum of the
\* symbol's folded rows, initialised from the first record, and max_pnl_usd
\* and min_pnl_usd are those extrema rounded to two decimals; a symbol whose
\* pnl values are all negative reports no max above zero.
C3_ExtremaRounded ==
    /\ ExtremaOfFolded
    /\ \A n \in 1..Len(Table(summary)) :
          LET r == Table(summary)[n]
              S == SymRows(Table(perTrade), r.symbol)
          IN  /\ Nearest(r.max_pnl_usd, PnlMax(Table(perTrade), S), 10)
              /\ Nearest(r.min_pnl_usd, PnlMin(Table(perTrade), S), 10)
              /\ (\A m \in S : Table(perTrade)[m].pnl < 0) => r.max_pnl_usd <= 0

\* a written summary with a symbol of several records, all negative, whose
\* extrema differ
C3_Witness ==
    /\ Complete(summary)
    /\ \E n \in 1..Len(Table(summary)) :
          LET r == Table(summary)[n]
          IN  r.total >= 2 /\ r.max_pnl_usd < 0 /\ r.min_pnl_usd < r.max_pnl_usd

(***************************************************************************)
(* C4                                                                      *)
(***************************************************************************)
\* the sums are the sums of the folded records and every count is at least 1
SumsOfFolded ==
    /\ DOMAIN sum_p = DOMAIN cnt
    /\ \A sym \in DOMAIN cnt :
          LET folded == SubSeq(rows, 1, k - 1)
          IN  /\ sum_p[sym] = PnlSum(folded, SymRows(folded, sym))
              /\ cnt[sym] >= 1

\* the average of every summary row is within 0.01 of sum / total
AvgWithinTolerance ==
    \A n \in 1..Len(Table(summary)) :
        LET r == Table(summary)[n]
            S == SymRows(Table(perTrade), r.symbol)
        IN  /\ r.total >= 1
            /\ Within001(r.avg_pnl_usd, PnlSum(Table(perTrade), S), 10 * r.total)

\* C4 as stated: the unrounded sum is the sum of the symbol's pnl values, the
\* average is within 0.01 of sum / total, total is at least 1, and
\* win_rate_pct equals 100 * hits / total.
C4_WinRateExact ==
    /\ SumsOfFolded
    /\ AvgWithinTolerance
    /\ \A n \in 1..Len(Table(summary)) :
          LET r == Table(summary)[n]
          IN  r.win_rate_pct * r.total = 10000 * r.hits

\* C4 amended: the unrounded sum is the sum of the symbol's pnl values, the
\* average is within 0.01 of sum / total, total is at least 1, and
\* win_rate_pct equals 100 * hits / total rounded to two decimals.
C4_WinRateRounded ==
    /\ SumsOfFolded
    /\ AvgWithinTolerance
    /\ \A n \in 1..Len(Table(summary)) :
          LET r == Table(summary)[n]
              S == SymRows(Table(perTrade), r.symbol)
          IN  Nearest(r.win_rate_pct, 10000 * Cardinality(HitRows(Table(perTrade), r.symbol)),
                      Cardinality(S))

\* a written summary with a symbol that has one HIT in three records
C4_Witness ==
    /\ Complete(summary)
    /\ \E n \in 1..Len(Table(summary)) :
          Table(summary)[n].total = 3 /\ Table(summary)[n].hits = 1

(***************************************************************************)
(* C5                                                                      *)
(***************************************************************************)
\* the rows of body are in strictly ascending order of symbol
Ascending(body) ==
    \A a, b \in 1..Len(body) : a < b => StrLess(body[a].symbol, body[b].symbol)

\* the trimmed symbol of every matching line of ls
TrimmedSymbols(ls) ==
    { Strip(line_re[ls[n]].symbol) : n \in { m \in 1..Len(ls) : Matches(ls[m]) } }

\* C5: the summary table has exactly one row per distinct symbol among the
\* records (the trimmed, case-sensitive symbols; none missing, repeated or
\* invented), in strictly ascending lexicographic order of the symbol.
C5_OneRowPerSymbolSorted ==
    /\ Ascending(Table(summary))
    /\ \A n \in 1..Len(Table(summary)) : Table(summary)[n].symbol \in Symbols(rows)
    /\ Complete(summary) =>
          /\ { Table(summary)[n].symbol : n \in 1..Len(Table(summary)) } = Symbols(rows)
          /\ Len(Table(summary)) = Cardinality(Symbols(rows))
          /\ DOMAIN cnt = Symbols(rows)
          /\ Symbols(rows) = TrimmedSymbols(log)

\* a written summary of three symbols, two of which differ only in case
C5_Witness ==
    /\ Complete(summary)
    /\ Len(Table(summary)) = 3
    /\ \E a, b \in 1..Len(Table(summary)) :
          /\ Table(summary)[a].symbol = << "A", "A", "P", "L" >>
          /\ Table(summary)[b].symbol = << "a", "a", "p", "l" >>

(***************************************************************************)
(* C6                                                                      *)
(***************************************************************************)
\* body is a summary table of the records rs
SummaryOf(body, rs) ==
    /\ Ascending(body)
    /\ { body[n].symbol : n \in 1..Len(body) } = Symbols(rs)
    /\ \A n \in 1..Len(body) :
          LET r == body[n]
              S == SymRows(rs, r.symbol)
              H == HitRows(rs, r.symbol)
          IN  /\ r.total = Cardinality(S)
              /\ r.hits = Cardinality(H)
              /\ r.misses = Cardinality(S \ H)
              /\ Nearest(r.win_rate_pct, 10000 * Cardinality(H), Cardinality(S))
              /\ Nearest(r.avg_pnl_usd, PnlSum(rs, S), 10 * Cardinality(S))
              /\ Nearest(r.sum_pnl_usd, PnlSum(rs, S), 10)
              /\ Nearest(r.max_pnl_usd, PnlMax(rs, S), 10)
              /\ Nearest(r.min_pnl_usd, PnlMin(rs, S), 10)

\* the positions of the lines of the log that fail the pattern
Skipped == { n \in 1..Len(log) : ~Matches(log[n]) }

\* C6: a line that fails the pattern is silently skipped: it does not abort
\* the run (a run ends in an exception only of the file system or of the
\* conversion of a matching line), it adds no row and no aggregate, and both
\* tables are those of the same log with that line removed.
C6_NonMatchingLineSkipped ==
    /\ err \in IoErrors \cup {"none", "ValueError"}
    /\ err = "ValueError" => i <= Len(log) /\ Matches(log[i])
    /\ pc = "read" => Len(rows) = Len(SelectSeq(SubSeq(log, 1, i - 1), Matches))
    /\ pc = "done" =>
          /\ SummaryOf(Table(summary), Table(perTrade))
          /\ \A n \in Skipped :
                /\ Table(perTrade) = RowsOf(RemoveAt(log, n))
                /\ SummaryOf(Table(summary), RowsOf(RemoveAt(log, n)))

\* a finished run over a log with a line lacking the Trades: segment between
\* two matching lines
C6_Witness ==
    /\ pc = "done"
    /\ \E n \in Skipped : 1 < n /\ n < Len(log) /\ log[n] = LineNoTrades
    /\ Len(rows) = 2

(***************************************************************************)
(* C7                                                                      *)
(***************************************************************************)
\* C7: every line that matches the pattern has PnL and Capital tokens that
\* parse as floats, so every matching line yields a record and no run fails
\* during numeric parsing.
C7_NumericTokensParse ==
    /\ err # "ValueError"
    /\ \A n \in 1..(i - 1) : Matches(log[n]) => Converts(line_re[log[n]])

(***************************************************************************)
(* C8                                                                      *)
(***************************************************************************)
\* C8: when the input log is missing or unreadable the run fails with that
\* error and neither the per-trade table nor the summary table is created,
\* truncated or modified (and nothing is printed).
C8_MissingInputWritesNothing ==
    err = "open_log" =>
        /\ pc = "failed"
        /\ Untouched(perTrade)
        /\ Untouched(summary)
        \* both are still in the state they shared at the start
        /\ perTrade = summary
        /\ out = << >>

\* a run ended by the missing input, with tables of an earlier run in place
C8_Witness == err = "open_log" /\ pc = "failed" /\ perTrade = Stale /\ Len(log) > 0

(***************************************************************************)
(* C9                                                                      *)
(***************************************************************************)
\* C9: in every terminal state either both tables are completely written
\* from the current input or neither has been written or changed.
C9_AllOrNothing ==
    Terminal =>
        \/ Complete(perTrade) /\ Complete(summary)
        \/ Untouched(perTrade) /\ Untouched(summary)

(***************************************************************************)
(* C10                                                                     *)
(***************************************************************************)
\* C10: the log is read to its end before either table is opened for writing,
\* and the two paths are printed only after both tables are written.
C10_ReadThenWriteThenPrint ==
    /\ (~Untouched(perTrade) \/ ~Untouched(summary)) =>
          /\ pc \notin {"makedirs", "open_log", "read"}
          /\ i = Len(log) + 1
    /\ out # << >> =>
          /\ out = << per_trade_path, summary_path >>
          /\ Complete(perTrade) /\ Table(perTrade) = rows
          /\ Complete(summary) /\ Len(Table(summary)) = Len(keys)

\* both paths printed after a log of several lines, one of them skipped
C10_Witness ==
    /\ out = << per_trade_path, summary_path >>
    /\ Len(log) >= 2
    /\ Skipped # {}
    /\ rows # << >>

====
